---------------------------- MODULE Spec2Model ----------------------------
(***************************************************************************)
(* Model of lib/spack/spack/cmd/common/arguments.py: the registry of      *)
(* common command-line arguments, add_common_arguments, and the three     *)
(* argparse actions ConstraintAction, SetParallelJobs and DeptypeAction.  *)
(*                                                                         *)
(* Python values are encoded as follows.  None is the empty sequence,     *)
(* Some(x) the one-element sequence <<x>>.  A str whose characters matter *)
(* (the --deptype value) is a sequence of one-character strings.  A dict  *)
(* is a function whose DOMAIN is the set of keys present.                 *)
(***************************************************************************)
EXTENDS Integers, Sequences, FiniteSets, TLC

VARIABLES
    _arguments,    \* the registry: name -> flags of the Args its function returns
    parser,        \* the argparse parser being extended: the actions added so far
    attach_result, \* outcome of the last add_common_arguments call
    config,        \* spack.config: scope -> dict of settings
    cpu_count,     \* multiprocessing.cpu_count()
    args,          \* the namespace the jobs/deptype actions write to (a dict)
    jobs_result,   \* outcome of the last SetParallelJobs.__call__
    default_read,  \* value returned by the last read of SetParallelJobs.default
    prev_default,  \* value returned by the read before that one
    deptype_result,\* outcome of the last DeptypeAction.__call__
    self_values,   \* ConstraintAction instance attribute self.values
    namespaces,    \* the namespaces of successive parses with the constraint parser
    active_env,    \* spack.environment._active_environment
    db,            \* spack.store.db: the installed packages, in database order
    fired_env,     \* the active environment at the last ConstraintAction.__call__
    constraint_result \* outcome of the last ConstraintAction.__call__ or _specs

vars == <<_arguments, parser, attach_result, config, cpu_count, args, jobs_result,
          default_read, prev_default, deptype_result, self_values, namespaces,
          active_env, db, fired_env, constraint_result>>

registryVars == <<_arguments, parser, attach_result>>
actionVars == <<config, cpu_count, args, jobs_result, default_read,
                prev_default, deptype_result>>
constraintVars == <<self_values, namespaces, active_env, db, fired_env,
                    constraint_result>>

None == <<>>
Some(x) == <<x>>

Min(a, b) == IF a <= b THEN a ELSE b

Range(s) == {s[i] : i \in DOMAIN s}

(***************************************************************************)
(* Bounds of the model.                                                    *)
(***************************************************************************)
MaxNames == 2       \* longest list_of_arguments passed to add_common_arguments
MaxAttached == 3    \* most arguments one parser is given before it is replaced

(***************************************************************************)
(* The registry and add_common_arguments.                                  *)
(***************************************************************************)

\* The names of the functions the module decorates with @arg.
DecoratedNames ==
    {"constraint", "package", "packages", "spec", "specs", "installed_spec",
     "installed_specs", "yes_to_all", "recurse_dependencies",
     "recurse_dependents", "clean", "deptype", "dirty", "long", "very_long",
     "tags", "jobs", "install_status", "no_checksum"}

\* x.flags of the Args each argument-generating function of the module
\* returns.
BuilderFlags(name) ==
    CASE name = "constraint" -> <<"constraint">>
      [] name = "package" -> <<"package">>
      [] name = "packages" -> <<"packages">>
      [] name = "spec" -> <<"spec">>
      [] name = "specs" -> <<"specs">>
      [] name = "installed_spec" -> <<"spec">>
      [] name = "installed_specs" -> <<"specs">>
      [] name = "yes_to_all" -> <<"-y", "--yes-to-all">>
      [] name = "recurse_dependencies" -> <<"-r", "--dependencies">>
      [] name = "recurse_dependents" -> <<"-R", "--dependents">>
      [] name = "clean" -> <<"--clean">>
      [] name = "deptype" -> <<"--deptype">>
      [] name = "dirty" -> <<"--dirty">>
      [] name = "long" -> <<"-l", "--long">>
      [] name = "very_long" -> <<"-L", "--very-long">>
      [] name = "tags" -> <<"-t", "--tags">>
      [] name = "jobs" -> <<"-j", "--jobs">>
      [] name = "install_status" -> <<"-I", "--install-status">>
      [] name = "no_checksum" -> <<"-n", "--no-checksum">>

\* _arguments once the module is imported: every decorated function, under
\* its own name.
ImportedArguments == [name \in DecoratedNames |-> BuilderFlags(name)]

\* arg(fn): _arguments[fn.__name__] = fn.  A function is given by its name
\* and the flags of the Args it returns; an entry of that name is replaced.
arg(registry, fn) ==
    [name \in DOMAIN registry \cup {fn.name} |->
        IF name = fn.name THEN fn.flags ELSE registry[name]]

\* The flags that are positional names: they do not start with '-'.
PositionalFlags == {"constraint", "package", "packages", "spec", "specs"}

\* The option strings among a tuple of flags.
OptionStrings(flags) == {f \in Range(flags) : f \notin PositionalFlags}

\* The option strings the parser already answers to.
ParserOptionStrings(p) == UNION {OptionStrings(p[i]) : i \in DOMAIN p}

\* parser.add_argument(*flags): argparse refuses an option string that the
\* parser already has (conflict_handler 'error'); positionals never conflict.
AddArgumentConflicts(p, flags) ==
    OptionStrings(flags) \cap ParserOptionStrings(p) # {}

\* The loop of add_common_arguments from position i on, with parser p:
\* the final parser and how the call ended.
RECURSIVE AttachFrom(_, _, _, _)
AttachFrom(registry, p, names, i) ==
    IF i > Len(names)
    THEN [parser |-> p, status |-> "ok", argument |-> None]
    ELSE IF names[i] \notin DOMAIN registry
    THEN [parser |-> p, status |-> "KeyError", argument |-> Some(names[i])]
    ELSE IF AddArgumentConflicts(p, registry[names[i]])
    THEN [parser |-> p, status |-> "ArgumentError",
          argument |-> Some(names[i])]
    ELSE AttachFrom(registry, Append(p, registry[names[i]]), names, i + 1)

\* A variant that passes over unregistered names instead of raising.
add_common_arguments_lenient(registry, p, list_of_arguments) ==
    AttachFrom(registry, p,
               SelectSeq(list_of_arguments, LAMBDA n : n \in DOMAIN registry),
               1)

\* add_common_arguments(parser, list_of_arguments), reading the registry.
add_common_arguments(registry, p, list_of_arguments) ==
    AttachFrom(registry, p, list_of_arguments, 1)

\* Names a command may ask for: registered at import, registered later by
\* arg(), and never registered.
NameChoices == {"jobs", "long", "constraint", "frobnicate", "no_such"}

\* Functions that code outside the module may decorate with @arg: a new
\* name, and a name the module already registered (with other flags).
ArgFunctions ==
    {[name |-> "frobnicate", flags |-> <<"--frobnicate">>],
     [name |-> "long", flags |-> <<"--long-format">>]}

NameLists == UNION {[1..n -> NameChoices] : n \in 0..MaxNames}

NoAttach == [names |-> <<>>, status |-> "none", argument |-> None,
             before |-> <<>>, registry |-> ImportedArguments]

AddCommonArguments ==
    \E names \in NameLists :
        /\ Len(parser) + Len(names) <= MaxAttached
        /\ LET r == add_common_arguments(_arguments, parser, names)
           IN /\ parser' = r.parser
              /\ attach_result' = [names |-> names, status |-> r.status,
                                   argument |-> r.argument,
                                   before |-> parser,
                                   registry |-> _arguments]
        /\ UNCHANGED <<_arguments, actionVars, constraintVars>>

\* @arg applied to one more function.
Arg ==
    \E fn \in ArgFunctions :
        /\ _arguments' = arg(_arguments, fn)
        /\ UNCHANGED <<parser, attach_result, actionVars, constraintVars>>

\* A command builds a fresh parser (argparse.ArgumentParser()).
NewParser ==
    /\ parser # <<>>
    /\ parser' = <<>>
    /\ attach_result' = NoAttach
    /\ UNCHANGED <<_arguments, actionVars, constraintVars>>

(***************************************************************************)
(* External collaborators of SetParallelJobs: the layered configuration   *)
(* and the hardware concurrency.                                           *)
(***************************************************************************)

EmptyDict == [k \in {} |-> None]

\* dict[key] = value
DictSet(d, key, value) == (key :> value) @@ d

\* del dict[key]
DictDel(d, key) == [k \in DOMAIN d \ {key} |-> d[k]]

\* The configuration scopes, lowest priority first.
ConfigScopes == <<"user", "command_line">>

RECURSIVE ConfigLookup(_, _, _, _)
ConfigLookup(cfg, key, default, i) ==
    IF i = 0 THEN default
    ELSE IF key \in DOMAIN cfg[ConfigScopes[i]]
    THEN cfg[ConfigScopes[i]][key]
    ELSE ConfigLookup(cfg, key, default, i - 1)

\* spack.config.get(key, default): the value in the highest-priority scope
\* that sets the key, the default when no scope does.
spack_config_get(cfg, key, default) ==
    ConfigLookup(cfg, key, default, Len(ConfigScopes))

\* spack.config.set(key, value, scope=scope)
spack_config_set(cfg, key, value, scope) ==
    [cfg EXCEPT ![scope] = DictSet(cfg[scope], key, value)]

\* setattr(namespace, name, value)
setattr(namespace, name, value) == DictSet(namespace, name, value)

\* Fallback of spack.config.get('config:build_jobs', 16).
DefaultBuildJobs == 16

(***************************************************************************)
(* SetParallelJobs.                                                        *)
(***************************************************************************)

\* A variant that stores the requested value without clamping it.
SetParallelJobs_call_unclamped(cfg, namespace, cpu, jobs) ==
    IF jobs < 1
    THEN [raised |-> Some("ValueError"), config |-> cfg,
          namespace |-> namespace]
    ELSE [raised |-> None,
          config |-> spack_config_set(cfg, "config:build_jobs", jobs,
                                      "command_line"),
          namespace |-> setattr(namespace, "jobs", jobs)]

\* A variant that writes the configuration before it validates.
SetParallelJobs_call_write_first(cfg, namespace, cpu, jobs) ==
    LET clamped == Min(jobs, cpu)
        written == spack_config_set(cfg, "config:build_jobs", clamped,
                                    "command_line")
    IN IF jobs < 1
       THEN [raised |-> Some("ValueError"), config |-> written,
             namespace |-> namespace]
       ELSE [raised |-> None, config |-> written,
             namespace |-> setattr(namespace, "jobs", clamped)]

\* SetParallelJobs.__call__(parser, namespace, jobs, option_string): the
\* configuration and namespace after the call, and the exception raised.
SetParallelJobs_call(cfg, namespace, cpu, jobs) ==
    IF jobs < 1
    THEN [raised |-> Some("ValueError"), config |-> cfg,
          namespace |-> namespace]
    ELSE LET clamped == Min(jobs, cpu)
         IN [raised |-> None,
             config |-> spack_config_set(cfg, "config:build_jobs", clamped,
                                         "command_line"),
             namespace |-> setattr(namespace, "jobs", clamped)]

\* A variant of the getter that forgets the hardware concurrency.
SetParallelJobs_default_unclamped(cfg, cpu) ==
    spack_config_get(cfg, "config:build_jobs", DefaultBuildJobs)

\* The property SetParallelJobs.default (getter).
SetParallelJobs_default(cfg, cpu) ==
    Min(spack_config_get(cfg, "config:build_jobs", DefaultBuildJobs), cpu)

\* Values of --jobs after argparse's type=int conversion.
JobInputs == {-3, 0, 1, 5, 999}

\* Values multiprocessing.cpu_count() may report.
CpuChoices == {2, 8, 32}

\* Values a configuration file may give config:build_jobs.
BuildJobsChoices == {4, 64}

NoJobsOp == [op |-> "none"]

SetParallelJobsCall ==
    \E jobs \in JobInputs :
        LET r == SetParallelJobs_call(config, args, cpu_count, jobs)
        IN /\ config' = r.config
           /\ args' = r.namespace
           /\ jobs_result' = [op |-> "__call__", jobs |-> jobs,
                              raised |-> r.raised, config_before |-> config,
                              namespace_before |-> args]
           /\ UNCHANGED <<cpu_count, default_read, prev_default,
                          deptype_result, registryVars, constraintVars>>

\* A read of action.default.
ReadDefault ==
    /\ default_read' = Some(SetParallelJobs_default(config, cpu_count))
    /\ prev_default' = default_read
    /\ jobs_result' = [op |-> "default"]
    /\ UNCHANGED <<config, cpu_count, args, deptype_result, registryVars,
                   constraintVars>>

\* action.default = value: the setter's body is `pass`.
AssignDefault ==
    \E value \in JobInputs :
        /\ jobs_result' = [op |-> "default.setter", value |-> value]
        /\ UNCHANGED <<config, cpu_count, args, default_read, prev_default,
                       deptype_result, registryVars, constraintVars>>

\* A configuration file sets or drops config:build_jobs in the user scope.
ConfigChange ==
    /\ \/ \E v \in BuildJobsChoices :
              config' = spack_config_set(config, "config:build_jobs", v,
                                         "user")
       \/ config' = [config EXCEPT
                        !["user"] = DictDel(@, "config:build_jobs")]
    /\ config' # config
    /\ jobs_result' = [op |-> "config"]
    /\ UNCHANGED <<cpu_count, args, default_read, prev_default,
                   deptype_result, registryVars, constraintVars>>

\* The hardware concurrency changes between calls.
CpuChange ==
    \E h \in CpuChoices \ {cpu_count} :
        /\ cpu_count' = h
        /\ jobs_result' = [op |-> "cpu"]
        /\ UNCHANGED <<config, args, default_read, prev_default,
                       deptype_result, registryVars, constraintVars>>

(***************************************************************************)
(* DeptypeAction.  The value of --deptype is a str: a sequence of          *)
(* characters.  A Python value that is either a str or a tuple of str is  *)
(* tagged with its type, so that 'all' and ('all',) are different values.  *)
(***************************************************************************)

MaxDeptypeTokens == 2  \* most comma-separated tokens in a --deptype value

PyStr(s) == [t |-> "str", v |-> s]
PyTuple(xs) == [t |-> "tuple", v |-> xs]
PyEq(a, b) == a.t = b.t /\ a.v = b.v

S_build == <<"b", "u", "i", "l", "d">>
S_link == <<"l", "i", "n", "k">>
S_run == <<"r", "u", "n">>
S_test == <<"t", "e", "s", "t">>
S_all == <<"a", "l", "l">>
S_bogus == <<"b", "o", "g", "u", "s">>

\* spack.dependency.all_deptypes
all_deptypes == PyTuple(<<S_build, S_link, S_run, S_test>>)

\* Position of a dependency type in the vocabulary's order, 0 when unknown.
DeptypeRank(tok) ==
    IF \E i \in DOMAIN all_deptypes.v : all_deptypes.v[i] = tok
    THEN CHOOSE i \in DOMAIN all_deptypes.v : all_deptypes.v[i] = tok
    ELSE 0

\* spack.dependency.canonical_deptype: the marker 'all' stands for every
\* type; a str names one type; a tuple is validated token by token and
\* returned ordered and without repetitions.  An unknown token is an error.
canonical_deptype(deptype) ==
    IF deptype.t = "str"
    THEN IF deptype.v = S_all
         THEN [raised |-> None, value |-> all_deptypes]
         ELSE IF DeptypeRank(deptype.v) = 0
         THEN [raised |-> Some("ValueError"), value |-> deptype]
         ELSE [raised |-> None, value |-> PyTuple(<<deptype.v>>)]
    ELSE IF \E i \in DOMAIN deptype.v : DeptypeRank(deptype.v[i]) = 0
    THEN [raised |-> Some("ValueError"), value |-> deptype]
    ELSE LET present == {DeptypeRank(deptype.v[i]) : i \in DOMAIN deptype.v}
         IN [raised |-> None,
             value |-> PyTuple(SelectSeq(all_deptypes.v,
                          LAMBDA tok : DeptypeRank(tok) \in present))]

\* The characters str.strip() removes: those for which str.isspace() holds.
\* A character that has no escape in a string here is written by its code
\* point.
Whitespace ==
    {" ", "\t", "\n", "\r", "\f", "U+000B", "U+001C", "U+001D", "U+001E",
     "U+001F", "U+0085", "U+00A0", "U+1680", "U+2000", "U+2001", "U+2002",
     "U+2003", "U+2004", "U+2005", "U+2006", "U+2007", "U+2008", "U+2009",
     "U+200A", "U+2028", "U+2029", "U+202F", "U+205F", "U+3000"}

\* str.split(sep): the pieces between separators, empty pieces included.
RECURSIVE SplitFrom(_, _, _, _, _)
SplitFrom(s, sep, i, piece, pieces) ==
    IF i > Len(s) THEN Append(pieces, piece)
    ELSE IF s[i] = sep
    THEN SplitFrom(s, sep, i + 1, <<>>, Append(pieces, piece))
    ELSE SplitFrom(s, sep, i + 1, Append(piece, s[i]), pieces)

Split(s, sep) == SplitFrom(s, sep, 1, <<>>, <<>>)

RECURSIVE LStrip(_)
LStrip(s) == IF s # <<>> /\ s[1] \in Whitespace THEN LStrip(Tail(s)) ELSE s

RECURSIVE RStrip(_)
RStrip(s) ==
    IF s # <<>> /\ s[Len(s)] \in Whitespace
    THEN RStrip(SubSeq(s, 1, Len(s) - 1))
    ELSE s

\* str.strip()
Strip(s) == LStrip(RStrip(s))

\* tuple(x.strip() for x in values.split(','))
StrippedTokens(values) ==
    LET pieces == Split(values, ",")
    IN [i \in DOMAIN pieces |-> Strip(pieces[i])]

\* A variant that hands the one-element tuple ('all',) to the canonicalizer.
DeptypeAction_call_no_marker(namespace, dest, values) ==
    IF values = None \/ values[1] = <<>>
    THEN [raised |-> None, canon_arg |-> None,
          namespace |-> setattr(namespace, dest, all_deptypes)]
    ELSE LET deptype == PyTuple(StrippedTokens(values[1]))
             canon == canonical_deptype(deptype)
         IN IF canon.raised # None
            THEN [raised |-> canon.raised, canon_arg |-> Some(deptype),
                  namespace |-> namespace]
            ELSE [raised |-> None, canon_arg |-> Some(deptype),
                  namespace |-> setattr(namespace, dest, canon.value)]

\* DeptypeAction.__call__(parser, namespace, values): values is None or
\* Some(str).  Gives the namespace after the call, the exception raised and
\* the argument canonical_deptype was called with (None when not called).
DeptypeAction_call(namespace, dest, values) ==
    IF values = None \/ values[1] = <<>>
    THEN [raised |-> None, canon_arg |-> None,
          namespace |-> setattr(namespace, dest, all_deptypes)]
    ELSE LET tokens == PyTuple(StrippedTokens(values[1]))
             deptype == IF PyEq(tokens, PyTuple(<<S_all>>))
                        THEN PyStr(S_all)
                        ELSE tokens
             canon == canonical_deptype(deptype)
         IN IF canon.raised # None
            THEN [raised |-> canon.raised, canon_arg |-> Some(deptype),
                  namespace |-> namespace]
            ELSE [raised |-> None, canon_arg |-> Some(deptype),
                  namespace |-> setattr(namespace, dest, canon.value)]

\* The words a user may put between the commas, padded or not.
DeptypeWords ==
    {S_build, S_link, S_all, S_bogus, <<" ">> \o S_all \o <<"\r">>,
     <<"\f">> \o S_link \o <<"U+000B">>, <<>>}

RECURSIVE JoinFrom(_, _, _)
JoinFrom(words, sep, i) ==
    IF i > Len(words) THEN <<>>
    ELSE IF i = Len(words) THEN words[i]
    ELSE words[i] \o <<sep>> \o JoinFrom(words, sep, i + 1)

\* Every value of --deptype: None (the action called without a value) or a
\* str of up to MaxDeptypeTokens comma-separated words.
DeptypeInputs ==
    {None} \cup
    {Some(JoinFrom(w, ",", 1)) :
        w \in UNION {[1..n -> DeptypeWords] : n \in 1..MaxDeptypeTokens}}

NoDeptypeOp == [op |-> "none", values |-> None, raised |-> None,
                canon_arg |-> None, namespace_before |-> EmptyDict]

DeptypeCall ==
    \E values \in DeptypeInputs :
        LET r == DeptypeAction_call(args, "deptype", values)
        IN /\ args' = r.namespace
           /\ deptype_result' = [op |-> "__call__", values |-> values,
                                 raised |-> r.raised,
                                 canon_arg |-> r.canon_arg,
                                 namespace_before |-> args]
           /\ UNCHANGED <<config, cpu_count, jobs_result, default_read,
                          prev_default, registryVars, constraintVars>>

(***************************************************************************)
(* External collaborators of ConstraintAction: the spec parser, the       *)
(* database of installed packages and the active environment.              *)
(***************************************************************************)

MaxParses == 2  \* most command lines parsed with the constraint parser

\* The packages that may be installed.
Packages == {"mpich", "openmpi", "zlib"}

\* Spec.dag_hash(): the canonical content hash of an installed package.
dag_hash(s) ==
    CASE s = "mpich" -> "w3bqyp"
      [] s = "openmpi" -> "k7fdsa"
      [] s = "zlib" -> "2qxmtl"

\* Position of a package in the total order of specs (by name).
SpecRank(s) ==
    CASE s = "mpich" -> 1
      [] s = "openmpi" -> 2
      [] s = "zlib" -> 3

\* Spec.__lt__
SpecLt(a, b) == SpecRank(a) < SpecRank(b)

\* Tokens that are no well-formed spec.
MalformedTokens == {"@@"}

\* Spec.satisfies: the virtual package mpi is provided by mpich and openmpi;
\* any other query names one package.
Satisfies(s, query) ==
    IF query = "mpi" THEN s \in {"mpich", "openmpi"} ELSE s = query

\* spack.cmd.parse_specs(tokens): one query per token, an error when a
\* token is malformed.
parse_specs(tokens) ==
    IF \E i \in DOMAIN tokens : tokens[i] \in MalformedTokens
    THEN [raised |-> Some("SpecParseError"), value |-> <<>>]
    ELSE [raised |-> None, value |-> tokens]

\* spack.store.db.query(spec, **kwargs): spec is None (no spec argument) or
\* Some(query).  The installed packages, in database order, that satisfy
\* the query and whose hash is in kwargs['hashes'] when that filter is given.
db_query(database, spec, kwargs) ==
    SelectSeq(database,
        LAMBDA s : /\ spec = None \/ Satisfies(s, spec[1])
                   /\ "hashes" \in DOMAIN kwargs =>
                          dag_hash(s) \in kwargs["hashes"])

(***************************************************************************)
(* ConstraintAction.                                                       *)
(***************************************************************************)

\* One external call made by a handler.
ExtCall(fn, spec, kwargs) == [fn |-> fn, spec |-> spec, kwargs |-> kwargs]

\* specs[key] = value on an insertion-ordered dict, kept as a sequence of
\* key/value pairs.
OrderedDictSet(d, key, value) ==
    IF \E i \in DOMAIN d : d[i].key = key
    THEN [i \in DOMAIN d |->
            IF d[i].key = key THEN [key |-> key, value |-> value] ELSE d[i]]
    ELSE Append(d, [key |-> key, value |-> value])

\* dict.values()
OrderedDictValues(d) == [i \in DOMAIN d |-> d[i].value]

\* The inner loop: for s in results: specs[s.dag_hash()] = s
RECURSIVE AccumulateFrom(_, _, _)
AccumulateFrom(specs, results, i) ==
    IF i > Len(results) THEN specs
    ELSE AccumulateFrom(OrderedDictSet(specs, dag_hash(results[i]),
                                       results[i]),
                        results, i + 1)

\* The outer loop: for spec in qspecs: for s in db.query(spec, **kwargs)
RECURSIVE QueryFrom(_, _, _, _, _, _)
QueryFrom(specs, calls, qspecs, i, database, kwargs) ==
    IF i > Len(qspecs) THEN [specs |-> specs, calls |-> calls]
    ELSE QueryFrom(
            AccumulateFrom(specs,
                           db_query(database, Some(qspecs[i]), kwargs), 1),
            Append(calls, ExtCall("db.query", Some(qspecs[i]), kwargs)),
            qspecs, i + 1, database, kwargs)

\* Insert x into the sorted sequence xs, after the elements not greater.
RECURSIVE SortedInsert(_, _)
SortedInsert(xs, x) ==
    IF xs = <<>> THEN <<x>>
    ELSE IF SpecLt(x, Head(xs)) THEN <<x>> \o xs
    ELSE <<Head(xs)>> \o SortedInsert(Tail(xs), x)

\* sorted(xs)
RECURSIVE SortedFrom(_, _, _)
SortedFrom(acc, xs, i) ==
    IF i > Len(xs) THEN acc
    ELSE SortedFrom(SortedInsert(acc, xs[i]), xs, i + 1)

sorted(xs) == SortedFrom(<<>>, xs, 1)

\* A variant that parses the tokens as soon as the action fires.
ConstraintAction_call_eager(namespace, values) ==
    [self_values |-> Some(values),
     namespace |-> setattr(setattr(namespace, "constraint", values),
                           "specs", "self._specs"),
     calls |-> <<ExtCall("parse_specs", None, EmptyDict)>>]

\* ConstraintAction.__call__(parser, namespace, values): the instance
\* attribute, the namespace after the call, and the external calls made.
ConstraintAction_call(namespace, values) ==
    [self_values |-> Some(values),
     namespace |-> setattr(setattr(namespace, "constraint", values),
                           "specs", "self._specs"),
     calls |-> <<>>]

\* The outer loop of a variant that collects the matches in a list.
RECURSIVE QueryListFrom(_, _, _, _, _, _)
QueryListFrom(found, calls, qspecs, i, database, kwargs) ==
    IF i > Len(qspecs) THEN [found |-> found, calls |-> calls]
    ELSE QueryListFrom(
            found \o db_query(database, Some(qspecs[i]), kwargs),
            Append(calls, ExtCall("db.query", Some(qspecs[i]), kwargs)),
            qspecs, i + 1, database, kwargs)

\* A variant of _specs that collects the matches in a list, not in a dict
\* keyed by hash.
ConstraintAction_specs_list(values, env, database, kwargs) ==
    LET parsed == parse_specs(values)
        parse_call == ExtCall("parse_specs", None, EmptyDict)
        env_call == ExtCall("_active_environment", None, EmptyDict)
        kw == IF env # None
              THEN DictSet(kwargs, "hashes", env[1].all_hashes)
              ELSE kwargs
    IN IF parsed.raised # None
       THEN [raised |-> parsed.raised, value |-> <<>>,
             calls |-> <<parse_call>>]
       ELSE IF parsed.value = <<>>
       THEN [raised |-> None, value |-> db_query(database, None, kw),
             calls |-> <<parse_call, env_call,
                         ExtCall("db.query", None, kw)>>]
       ELSE LET r == QueryListFrom(<<>>, <<parse_call, env_call>>,
                                   parsed.value, 1, database, kw)
            IN [raised |-> None, value |-> sorted(r.found),
                calls |-> r.calls]

\* A variant of _specs without the special case of the empty query.
ConstraintAction_specs_no_empty_case(values, env, database, kwargs) ==
    LET parsed == parse_specs(values)
        parse_call == ExtCall("parse_specs", None, EmptyDict)
        env_call == ExtCall("_active_environment", None, EmptyDict)
        kw == IF env # None
              THEN DictSet(kwargs, "hashes", env[1].all_hashes)
              ELSE kwargs
    IN IF parsed.raised # None
       THEN [raised |-> parsed.raised, value |-> <<>>,
             calls |-> <<parse_call>>]
       ELSE LET r == QueryFrom(<<>>, <<parse_call, env_call>>, parsed.value,
                               1, database, kw)
            IN [raised |-> None,
                value |-> sorted(OrderedDictValues(r.specs)),
                calls |-> r.calls]

\* ConstraintAction._specs(**kwargs) with self.values = values: the value
\* returned or the exception raised, and the external calls made, in order.
ConstraintAction_specs(values, env, database, kwargs) ==
    LET parsed == parse_specs(values)
        parse_call == ExtCall("parse_specs", None, EmptyDict)
        env_call == ExtCall("_active_environment", None, EmptyDict)
        kw == IF env # None
              THEN DictSet(kwargs, "hashes", env[1].all_hashes)
              ELSE kwargs
    IN IF parsed.raised # None
       THEN [raised |-> parsed.raised, value |-> <<>>,
             calls |-> <<parse_call>>]
       ELSE IF parsed.value = <<>>
       THEN [raised |-> None, value |-> db_query(database, None, kw),
             calls |-> <<parse_call, env_call,
                         ExtCall("db.query", None, kw)>>]
       ELSE LET r == QueryFrom(<<>>, <<parse_call, env_call>>, parsed.value,
                               1, database, kw)
            IN [raised |-> None,
                value |-> sorted(OrderedDictValues(r.specs)),
                calls |-> r.calls]

\* Constraint tokens a command line may end with.
TokenLists ==
    {<<>>, <<"mpich">>, <<"zlib", "mpi">>, <<"mpi", "mpich">>, <<"@@">>,
     <<"mpich", "@@">>}

\* Hash filters a caller may pass to the specs callable: none, or hashes=...
CallerKwargs ==
    {EmptyDict} \cup
    {DictSet(EmptyDict, "hashes", h) :
        h \in {{dag_hash("mpich")}, {dag_hash("mpich"), dag_hash("zlib")}}}

\* Environments that may be active: the hashes of their specs.
Environments ==
    {[all_hashes |-> {dag_hash("openmpi")}],
     [all_hashes |-> {dag_hash("openmpi"), dag_hash("zlib")}]}

NoConstraintOp ==
    [op |-> "none", ns |-> 0, tokens |-> <<>>, kwargs |-> EmptyDict,
     raised |-> None, value |-> <<>>, calls |-> <<>>]

\* The parser consumes the constraint tokens of one more command line: the
\* one ConstraintAction instance of the parser fires on a fresh namespace.
ConstraintCall ==
    \E values \in TokenLists :
        /\ Len(namespaces) < MaxParses
        /\ LET r == ConstraintAction_call(EmptyDict, values)
           IN /\ self_values' = r.self_values
              /\ namespaces' = Append(namespaces, r.namespace)
              /\ constraint_result' =
                    [NoConstraintOp EXCEPT !.op = "__call__",
                                           !.ns = Len(namespaces) + 1,
                                           !.tokens = values,
                                           !.calls = r.calls]
        /\ fired_env' = active_env
        /\ UNCHANGED <<active_env, db, registryVars, actionVars>>

\* Command logic calls args.specs(**kwargs) of one of the namespaces.
InvokeSpecs ==
    \E n \in DOMAIN namespaces, kwargs \in CallerKwargs :
        /\ "specs" \in DOMAIN namespaces[n]
        /\ LET r == ConstraintAction_specs(self_values[1], active_env, db,
                                           kwargs)
           IN constraint_result' =
                 [op |-> "_specs", ns |-> n, tokens |-> self_values[1],
                  kwargs |-> kwargs, raised |-> r.raised, value |-> r.value,
                  calls |-> r.calls]
        /\ UNCHANGED <<self_values, namespaces, active_env, db, fired_env,
                       registryVars, actionVars>>

\* An environment is activated or deactivated.
EnvChange ==
    /\ \/ \E e \in Environments : active_env' = Some(e)
       \/ active_env' = None
    /\ active_env' # active_env
    /\ constraint_result' = NoConstraintOp
    /\ UNCHANGED <<self_values, namespaces, db, fired_env, registryVars,
                   actionVars>>

\* A package is installed: the database gains a record.
DbInstall ==
    \E s \in Packages \ Range(db) :
        /\ db' = Append(db, s)
        /\ constraint_result' = NoConstraintOp
        /\ UNCHANGED <<self_values, namespaces, active_env, fired_env,
                       registryVars, actionVars>>

\* A package is uninstalled: the database loses its record.
DbUninstall ==
    \E s \in Range(db) :
        /\ db' = SelectSeq(db, LAMBDA x : x # s)
        /\ constraint_result' = NoConstraintOp
        /\ UNCHANGED <<self_values, namespaces, active_env, fired_env,
                       registryVars, actionVars>>

(***************************************************************************)
(* Initial state and specifications.                                       *)
(***************************************************************************)

Init ==
    /\ _arguments = ImportedArguments
    /\ parser = <<>>
    /\ attach_result = NoAttach
    /\ config = [user |-> EmptyDict, command_line |-> EmptyDict]
    /\ cpu_count = 8
    /\ args = EmptyDict
    /\ jobs_result = NoJobsOp
    /\ default_read = None
    /\ prev_default = None
    /\ deptype_result = NoDeptypeOp
    /\ self_values = None
    /\ namespaces = <<>>
    /\ active_env = None
    /\ db = <<>>
    /\ fired_env = None
    /\ constraint_result = NoConstraintOp

NextRegistry == AddCommonArguments \/ Arg \/ NewParser
SpecRegistry == Init /\ [][NextRegistry]_vars

NextJobs ==
    \/ SetParallelJobsCall
    \/ ReadDefault
    \/ AssignDefault
    \/ ConfigChange
    \/ CpuChange
SpecJobs == Init /\ [][NextJobs]_vars

NextDeptype == DeptypeCall
SpecDeptype == Init /\ [][NextDeptype]_vars

NextConstraint ==
    \/ ConstraintCall
    \/ InvokeSpecs
    \/ EnvChange
    \/ DbInstall
    \/ DbUninstall
SpecConstraint == Init /\ [][NextConstraint]_vars

(***************************************************************************)
(* Properties.                                                             *)
(***************************************************************************)

\* C1: for every j >= 1 the job-count action accepts j and stores
\* min(j, hardware concurrency) both in the namespace field jobs and in
\* config:build_jobs of the command_line scope; for every j < 1 it raises
\* the invalid-job-count error.
C1_JobsValidatedAndClamped ==
    jobs_result.op = "__call__" =>
        LET j == jobs_result.jobs
            clamped == IF j <= cpu_count THEN j ELSE cpu_count
        IN IF j >= 1
           THEN /\ jobs_result.raised = None
                /\ "jobs" \in DOMAIN args
                /\ args["jobs"] = clamped
                /\ "config:build_jobs" \in DOMAIN config["command_line"]
                /\ config["command_line"]["config:build_jobs"] = clamped
           ELSE jobs_result.raised = Some("ValueError")

\* C1 witness: --jobs 999 on a machine of 8 stored 8 in both places.
C1_Witness ==
    /\ jobs_result.op = "__call__"
    /\ jobs_result.jobs = 999
    /\ cpu_count = 8
    /\ jobs_result.raised = None
    /\ "jobs" \in DOMAIN args
    /\ args["jobs"] = 8
    /\ "config:build_jobs" \in DOMAIN config["command_line"]
    /\ config["command_line"]["config:build_jobs"] = 8

\* Index of the first name of the list that is not registered, 0 if none.
FirstUnregistered(names, registered) ==
    IF \E i \in DOMAIN names : names[i] \notin registered
    THEN CHOOSE i \in DOMAIN names :
            /\ names[i] \notin registered
            /\ \A k \in 1..(i - 1) : names[k] \in registered
    ELSE 0

\* C2 as stated: add_common_arguments raises the unknown-argument error if
\* and only if some name of the list is not registered, the error names the
\* first such name, and a single registered name never raises it.
C2_UnknownIffUnregistered ==
    attach_result.status # "none" =>
        LET names == attach_result.names
            registered == DOMAIN attach_result.registry
            first == FirstUnregistered(names, registered)
        IN /\ (attach_result.status = "KeyError") <=> (first # 0)
           /\ attach_result.status = "KeyError" =>
                 attach_result.argument = Some(names[first])
           /\ (Len(names) = 1 /\ names[1] \in registered) =>
                 attach_result.status # "KeyError"

\* C2 amended: add_common_arguments raises the unknown-argument error if and
\* only if some name of the list is not registered and parser.add_argument
\* raised for no name before the first such name (an option string the
\* parser already has is refused); the error names the first unregistered
\* name, and a single registered name never raises it.
C2_UnknownIffReached ==
    attach_result.status # "none" =>
        LET names == attach_result.names
            registered == DOMAIN attach_result.registry
            first == FirstUnregistered(names, registered)
            Taken(j) ==
                ParserOptionStrings(attach_result.before) \cup
                UNION {OptionStrings(attach_result.registry[names[k]]) :
                          k \in 1..(j - 1)}
            Refused(j) ==
                OptionStrings(attach_result.registry[names[j]]) \cap Taken(j)
                    # {}
        IN /\ (attach_result.status = "KeyError") <=>
                 (first # 0 /\ \A j \in 1..(first - 1) : ~Refused(j))
           /\ attach_result.status = "KeyError" =>
                 attach_result.argument = Some(names[first])
           /\ (Len(names) = 1 /\ names[1] \in registered) =>
                 attach_result.status # "KeyError"

\* C2 witness: a list whose second name is unregistered raised the error
\* naming it, after the first name was attached.
C2_Witness ==
    /\ attach_result.status = "KeyError"
    /\ Len(attach_result.names) = 2
    /\ attach_result.names[1] \in DOMAIN attach_result.registry
    /\ attach_result.argument = Some(attach_result.names[2])
    /\ Len(parser) = Len(attach_result.before) + 1

\* The tokens most recently handed to ConstraintAction.__call__.
LastFiredTokens == namespaces[Len(namespaces)]["constraint"]

\* The packages of a sequence are pairwise different (by content hash).
NoDuplicates(xs) ==
    \A i, k \in DOMAIN xs : i # k => dag_hash(xs[i]) # dag_hash(xs[k])

\* A sequence of packages ascends in the total order of specs.
Ascending(xs) ==
    \A i, k \in DOMAIN xs : i < k => SpecRank(xs[i]) < SpecRank(xs[k])

\* The db.query calls among the external calls of the last operation.
QueryCalls == SelectSeq(constraint_result.calls, LAMBDA c : c.fn = "db.query")

\* Whether a package passes the hash filter a db.query call was given.
PassesFilter(s, kwargs) ==
    "hashes" \in DOMAIN kwargs => dag_hash(s) \in kwargs["hashes"]

\* C3: when ConstraintAction fired with two or more constraint expressions,
\* its deferred callable returns exactly the installed packages matched by
\* at least one expression (under the filters the database is given), each
\* package once, in ascending order of the packages' total order.
C3_MatchesOnceSorted ==
    (/\ constraint_result.op = "_specs"
     /\ constraint_result.raised = None
     /\ Len(LastFiredTokens) >= 2) =>
        /\ NoDuplicates(constraint_result.value)
        /\ Ascending(constraint_result.value)
        /\ Len(QueryCalls) = Len(LastFiredTokens)
        /\ Range(constraint_result.value) =
              {s \in Range(db) :
                 \E i \in DOMAIN LastFiredTokens :
                    /\ Satisfies(s, LastFiredTokens[i])
                    /\ PassesFilter(s, QueryCalls[i].kwargs)}

\* C3 witness: two expressions matched overlapping packages, the database
\* holds the matches in another order than the result's.
C3_Witness ==
    /\ constraint_result.op = "_specs"
    /\ constraint_result.raised = None
    /\ namespaces # <<>>
    /\ Len(LastFiredTokens) = 2
    /\ \E s \in Range(db) :
          Satisfies(s, LastFiredTokens[1]) /\ Satisfies(s, LastFiredTokens[2])
    /\ Len(constraint_result.value) = 2
    /\ constraint_result.value # db_query(db, None, EmptyDict)

\* C4: when ConstraintAction fired with an empty token list, its deferred
\* callable returns the result of the one database query made without any
\* spec argument: every installed package that passes the filters, and
\* all installed packages when there is no filter and no environment.
C4_EmptyConstraintMeansAll ==
    (/\ constraint_result.op = "_specs"
     /\ LastFiredTokens = <<>>) =>
        /\ constraint_result.raised = None
        /\ Len(QueryCalls) = 1
        /\ QueryCalls[1].spec = None
        /\ constraint_result.value =
              SelectSeq(db, LAMBDA s : PassesFilter(s, QueryCalls[1].kwargs))
        /\ (constraint_result.kwargs = EmptyDict /\ active_env = None) =>
              constraint_result.value = db

\* C4 witness: three installed packages, no filter, no environment, empty
\* constraint: all three returned.
C4_Witness ==
    /\ constraint_result.op = "_specs"
    /\ namespaces # <<>>
    /\ LastFiredTokens = <<>>
    /\ Len(db) = 3
    /\ constraint_result.kwargs = EmptyDict
    /\ active_env = None
    /\ Len(constraint_result.value) = 3

\* The comma-split, whitespace-trimmed tokens of the last --deptype value.
LastDeptypeTokens == StrippedTokens(deptype_result.values[1])

\* Whether the last DeptypeAction call was given no value.
NoDeptypeValue ==
    deptype_result.values = None \/ deptype_result.values[1] = <<>>

\* The parts of C5 that do not concern the single token "all".
C5_OtherCases ==
    /\ NoDeptypeValue =>
          /\ deptype_result.raised = None
          /\ "deptype" \in DOMAIN args
          /\ PyEq(args["deptype"], all_deptypes)
    /\ (~NoDeptypeValue /\ LastDeptypeTokens # <<S_all>>) =>
          IF \E i \in DOMAIN LastDeptypeTokens :
                LastDeptypeTokens[i] \notin Range(all_deptypes.v)
          THEN /\ deptype_result.raised # None
               /\ args = deptype_result.namespace_before
          ELSE /\ deptype_result.raised = None
               /\ deptype_result.canon_arg =
                     Some(PyTuple(LastDeptypeTokens))
               /\ "deptype" \in DOMAIN args
               /\ PyEq(args["deptype"],
                       canonical_deptype(PyTuple(LastDeptypeTokens)).value)

\* C5 as stated: DeptypeAction sets its destination to all known types
\* when no value is given, to the symbolic all-types marker when the
\* trimmed tokens are exactly "all", to the canonicalizer's tuple for any
\* other valid list, and leaves it unset when a token is unknown.
C5_DestinationIsMarker ==
    deptype_result.op = "__call__" =>
        /\ C5_OtherCases
        /\ (~NoDeptypeValue /\ LastDeptypeTokens = <<S_all>>) =>
              /\ deptype_result.raised = None
              /\ deptype_result.canon_arg = Some(PyStr(S_all))
              /\ "deptype" \in DOMAIN args
              /\ PyEq(args["deptype"], PyStr(S_all))

\* C5 amended: as stated, except that for the single token "all" the
\* marker `all` is only what the canonicalizer is handed; the destination
\* is set to what the canonicalizer returns for it, the tuple of all
\* dependency types.
C5_DestinationIsCanonical ==
    deptype_result.op = "__call__" =>
        /\ C5_OtherCases
        /\ (~NoDeptypeValue /\ LastDeptypeTokens = <<S_all>>) =>
              /\ deptype_result.raised = None
              /\ deptype_result.canon_arg = Some(PyStr(S_all))
              /\ "deptype" \in DOMAIN args
              /\ PyEq(args["deptype"], canonical_deptype(PyStr(S_all)).value)
              /\ args["deptype"].t = "tuple"

\* C5 witness: the value " all\r" (padded) was given after a call that had
\* set another destination value.
C5_Witness ==
    /\ deptype_result.op = "__call__"
    /\ deptype_result.values = Some(<<" ">> \o S_all \o <<"\r">>)
    /\ deptype_result.canon_arg = Some(PyStr(S_all))
    /\ "deptype" \in DOMAIN deptype_result.namespace_before
    /\ ~PyEq(deptype_result.namespace_before["deptype"], all_deptypes)
    /\ PyEq(args["deptype"], all_deptypes)

\* The configured build_jobs at this moment, 16 if no scope sets it.
ConfiguredBuildJobs ==
    IF "config:build_jobs" \in DOMAIN config["command_line"]
    THEN config["command_line"]["config:build_jobs"]
    ELSE IF "config:build_jobs" \in DOMAIN config["user"]
    THEN config["user"]["config:build_jobs"]
    ELSE 16

\* C6: every read of SetParallelJobs.default returns the smaller of the
\* build_jobs configured at that moment (16 if unset) and the hardware
\* concurrency at that moment, whatever was read, assigned or changed
\* before; an assignment to it changes nothing.
C6_DefaultComputedOnDemand ==
    [][/\ jobs_result'.op = "default" =>
            /\ default_read' # None
            /\ default_read'[1] <= cpu_count'
            /\ default_read'[1] =
                  (IF ConfiguredBuildJobs' <= cpu_count'
                   THEN ConfiguredBuildJobs' ELSE cpu_count')
       /\ jobs_result'.op = "default.setter" =>
            UNCHANGED <<config, cpu_count, args, default_read>>]_vars

\* C6 witness: a read returned less than the read before it, the hardware
\* concurrency having dropped below the configured value in between.
C6_Witness ==
    /\ jobs_result.op = "default"
    /\ prev_default # None
    /\ default_read # None
    /\ default_read[1] < prev_default[1]
    /\ default_read[1] = cpu_count
    /\ ConfiguredBuildJobs > cpu_count

\* C7: when the deferred callable is invoked with a caller-supplied hash
\* filter while an environment is active, every database query is passed
\* both hash sets: the filter it receives combines the caller's set and
\* the environment's set (as their union or as their intersection).
C7_BothHashSetsPassed ==
    (/\ constraint_result.op = "_specs"
     /\ constraint_result.raised = None
     /\ "hashes" \in DOMAIN constraint_result.kwargs
     /\ active_env # None) =>
        \A i \in DOMAIN QueryCalls :
            /\ "hashes" \in DOMAIN QueryCalls[i].kwargs
            /\ QueryCalls[i].kwargs["hashes"] \in
                  {constraint_result.kwargs["hashes"] \cup
                       active_env[1].all_hashes,
                   constraint_result.kwargs["hashes"] \cap
                       active_env[1].all_hashes}

\* C8: when ConstraintAction fires it makes no external call (no spec
\* parsing, no environment lookup, no database query) and raises nothing,
\* even for malformed tokens; the deferred callable parses first, raises
\* the parse error for malformed tokens, and otherwise filters every query
\* by the environment active when it is invoked.
C8_EvaluationDeferred ==
    /\ constraint_result.op = "__call__" =>
          /\ constraint_result.calls = <<>>
          /\ constraint_result.raised = None
          /\ self_values = Some(constraint_result.tokens)
    /\ constraint_result.op = "_specs" =>
          /\ constraint_result.calls # <<>>
          /\ constraint_result.calls[1].fn = "parse_specs"
          /\ (\E i \in DOMAIN constraint_result.tokens :
                  constraint_result.tokens[i] \in MalformedTokens)
                <=> constraint_result.raised = Some("SpecParseError")
          /\ constraint_result.raised # None => QueryCalls = <<>>
          /\ constraint_result.raised = None =>
                /\ QueryCalls # <<>>
                /\ \A i \in DOMAIN QueryCalls :
                      IF active_env = None
                      THEN QueryCalls[i].kwargs = constraint_result.kwargs
                      ELSE /\ "hashes" \in DOMAIN QueryCalls[i].kwargs
                           /\ QueryCalls[i].kwargs["hashes"] =
                                 active_env[1].all_hashes

\* C8 witness: the callable was invoked under an environment activated
\* after the action had fired without one, and queried the database.
C8_Witness ==
    /\ constraint_result.op = "_specs"
    /\ constraint_result.raised = None
    /\ fired_env = None
    /\ active_env # None
    /\ QueryCalls # <<>>
    /\ QueryCalls[1].kwargs["hashes"] = active_env[1].all_hashes

\* C9: given a value < 1 the job-count action raises and leaves the
\* command_line value of config:build_jobs and the namespace field jobs
\* exactly as they were before the call.
C9_NoWriteOnInvalid ==
    (jobs_result.op = "__call__" /\ jobs_result.jobs < 1) =>
        /\ jobs_result.raised # None
        /\ config = jobs_result.config_before
        /\ args = jobs_result.namespace_before

\* C9 witness: an invalid value was refused after an earlier valid one had
\* been written to the configuration and the namespace.
C9_Witness ==
    /\ jobs_result.op = "__call__"
    /\ jobs_result.jobs < 1
    /\ jobs_result.raised # None
    /\ "jobs" \in DOMAIN args
    /\ "config:build_jobs" \in DOMAIN config["command_line"]

\* C10: the callable stored under specs in a namespace resolves exactly
\* the tokens stored under constraint in that same namespace, whatever the
\* action fired on afterwards.
C10_CallableResolvesOwnTokens ==
    constraint_result.op = "_specs" =>
        constraint_result.tokens =
            namespaces[constraint_result.ns]["constraint"]

=============================================================================
